---- MODULE Spec2Model ----
(***************************************************************************)
(* Model of script.js: the itinerary generator (simulateItinerary and the *)
(* generate click handler), the rule-based assistant (assistantRespond)   *)
(* and the speech-recognition session handling (start/stop buttons and    *)
(* the recognizer callbacks).                                             *)
(*                                                                         *)
(* Strings that the code inspects character by character (the days field, *)
(* the utterance) are sequences of one-character strings.  Durations are  *)
(* kept in hundredths of a day and scores as exact fractions [n, d].      *)
(***************************************************************************)
EXTENDS Integers, Sequences, FiniteSets, TLC

VARIABLES
    catalog,        \* ATTRACTIONS as seen by simulateItinerary
    daysValue,      \* daysInput.value
    paceValue,      \* paceSelect.value
    selectedTags,   \* selectedTags
    pc,             \* "idle" before the generate click, "done" after it
    days,           \* the days argument passed to simulateItinerary
    rnd,            \* outcomes of the Math.random() > 0.6 tests, in call order
    pool,           \* pool after the sort
    targetCount,    \* targetCount
    diverse,        \* chosen after the region-diversity loop
    chosen,         \* chosen after the fallback fill
    plan,           \* the plan returned and displayed
    locale,         \* langSelect.value
    transcript,     \* the text handed to assistantRespond
    assistantResp,  \* what assistantRespond wrote and spoke: <<locale, reply>>
    recognizer,     \* the recognizer variable: 0 is null, else a session number
    recognizing,    \* the recognizing flag
    startDisabled,  \* startBtn.disabled
    stopDisabled,   \* stopBtn.disabled
    session         \* life-cycle state of every SpeechRecognition object created

plannerVars == <<catalog, daysValue, paceValue, selectedTags, pc, days, rnd,
                 pool, targetCount, diverse, chosen, plan>>
assistantVars == <<locale, transcript, assistantResp>>
voiceVars == <<recognizer, recognizing, startDisabled, stopDisabled, session>>
vars == <<catalog, daysValue, paceValue, selectedTags, pc, days, rnd,
          pool, targetCount, diverse, chosen, plan,
          locale, transcript, assistantResp,
          recognizer, recognizing, startDisabled, stopDisabled, session>>

----------------------------------------------------------------------------
(* Bounds *)

\* day counts typed into the days field range over -MaxDays..MaxDays
MaxDays == 8
\* utterances are made of at most MaxWords words
MaxWords == 3
\* SpeechRecognition objects created in one run
MaxSessions == 3

----------------------------------------------------------------------------
(* Generic helpers *)

Max(a, b) == IF a >= b THEN a ELSE b
Min(a, b) == IF a <= b THEN a ELSE b

\* Math.round of the rational n/d, d > 0: floor(n/d + 1/2)
MathRound(n, d) == (2 * n + d) \div (2 * d)

----------------------------------------------------------------------------
(* The catalog *)

ATTRACTIONS == <<
  [id |-> 1, name |-> "Betla National Park",
   tags |-> <<"nature", "wildlife", "adventure">>, region |-> "Palamu", duration |-> 100],
  [id |-> 2, name |-> "Ranchi - Hundru Falls",
   tags |-> <<"nature", "adventure">>, region |-> "Ranchi", duration |-> 50],
  [id |-> 3, name |-> "Deo Surya Mandir (Deoghar)",
   tags |-> <<"culture", "history">>, region |-> "Deoghar", duration |-> 100],
  [id |-> 4, name |-> "Hill Top (Netarhat)",
   tags |-> <<"nature", "relaxation">>, region |-> "Latehar", duration |-> 100],
  [id |-> 5, name |-> "Jonha Falls",
   tags |-> <<"nature", "adventure">>, region |-> "Ranchi", duration |-> 75],
  [id |-> 6, name |-> "Hazaribagh Wildlife Sanctuary",
   tags |-> <<"wildlife", "nature">>, region |-> "Hazaribagh", duration |-> 150],
  [id |-> 7, name |-> "Stone Age Cave Sites (Isko/Peer)",
   tags |-> <<"history", "culture">>, region |-> "Palamu", duration |-> 100] >>

\* the tags a chip can carry
Tags == {"nature", "wildlife", "adventure", "culture", "history", "relaxation"}

\* the pace values: the three the code names and one it does not
Paces == {"relaxed", "moderate", "busy"}
PaceValues == Paces \cup {"leisurely"}

Range(s) == {s[i] : i \in 1..Len(s)}

----------------------------------------------------------------------------
(* parseInt(daysInput.value) || 1 *)

Digits == <<"0", "1", "2", "3", "4", "5", "6", "7", "8", "9">>
IsDigit(c) == \E i \in 1..10 : Digits[i] = c
DigitVal(c) == (CHOOSE i \in 1..10 : Digits[i] = c) - 1
IsSpace(c) == c = " "

RECURSIVE TrimStart(_)
TrimStart(s) ==
    IF s # <<>> /\ IsSpace(Head(s)) THEN TrimStart(Tail(s)) ELSE s

\* value of the longest prefix of decimal digits of s, starting from acc;
\* seen tells whether a digit has been read
RECURSIVE DigitPrefix(_, _, _)
DigitPrefix(s, acc, seen) ==
    IF s # <<>> /\ IsDigit(Head(s))
    THEN DigitPrefix(Tail(s), 10 * acc + DigitVal(Head(s)), TRUE)
    ELSE [value |-> acc, seen |-> seen]

\* parseInt with no radix, for strings without a 0x prefix: leading white
\* space is skipped, one sign is read, then the digits up to the first other
\* character; without any digit the result is NaN
parseInt(s) ==
    LET t == TrimStart(s)
        neg == t # <<>> /\ Head(t) = "-"
        signed == t # <<>> /\ Head(t) \in {"-", "+"}
        r == DigitPrefix(IF signed THEN Tail(t) ELSE t, 0, FALSE)
    IN  IF ~r.seen THEN [nan |-> TRUE, value |-> 0]
        ELSE [nan |-> FALSE, value |-> IF neg THEN 0 - r.value ELSE r.value]

\* parseInt(...) || 1 : NaN and 0 (and -0) are falsy
ParseDays(s) ==
    LET v == parseInt(s)
    IN  IF v.nan \/ v.value = 0 THEN 1 ELSE v.value

----------------------------------------------------------------------------
(* simulateItinerary *)

\* for(const t of tags) if(a.tags.includes(t)) score += 2, over the tags
\* still to visit
RECURSIVE TagLoop(_, _, _)
TagLoop(a, tags, score) ==
    IF tags = {} THEN score
    ELSE LET t == CHOOSE u \in tags : TRUE
         IN  TagLoop(a, tags \ {t},
                     IF t \in Range(a.tags) THEN score + 2 ELSE score)

\* the loop with score += 1 in place of score += 2
RECURSIVE TagLoopPlusOne(_, _, _)
TagLoopPlusOne(a, tags, score) ==
    IF tags = {} THEN score
    ELSE LET t == CHOOSE u \in tags : TRUE
         IN  TagLoopPlusOne(a, tags \ {t},
                            IF t \in Range(a.tags) THEN score + 1 ELSE score)

ScorePlusOne(a, tags, pace) ==
    LET base == TagLoopPlusOne(a, tags, IF Cardinality(tags) = 0 THEN 1 ELSE 0)
    IN  IF pace = "busy"
        THEN [n |-> base * (a.duration + 10) + 100, d |-> a.duration + 10]
        ELSE [n |-> base, d |-> 1]

\* the score of one attraction, as the fraction n/d: 1 when no tag is
\* selected, 2 more for every selected tag the attraction carries, and
\* 1 / (duration + 0.1) = 100 / (duration in hundredths + 10) more when busy
Score(a, tags, pace) ==
    LET base == TagLoop(a, tags, IF Cardinality(tags) = 0 THEN 1 ELSE 0)
    IN  IF pace = "busy"
        THEN [n |-> base * (a.duration + 10) + 100, d |-> a.duration + 10]
        ELSE [n |-> base, d |-> 1]

\* ATTRACTIONS.map(a => ({...a, score}))
MapScores(cat, tags, pace) ==
    [i \in 1..Len(cat) |->
        [id |-> cat[i].id, name |-> cat[i].name, tags |-> cat[i].tags,
         region |-> cat[i].region, duration |-> cat[i].duration,
         score |-> Score(cat[i], tags, pace)]]

\* q.score - p.score > 0
ScoreLess(p, q) == p.score.n * q.score.d < q.score.n * p.score.d

\* stable insertion of x into the sorted sequence s: x goes after every
\* element that does not score less than it
RECURSIVE InsertSorted(_, _)
InsertSorted(s, x) ==
    IF s = <<>> THEN <<x>>
    ELSE IF ScoreLess(Head(s), x) THEN <<x>> \o s
    ELSE <<Head(s)>> \o InsertSorted(Tail(s), x)

RECURSIVE SortFrom(_, _)
SortFrom(sorted, rest) ==
    IF rest = <<>> THEN sorted
    ELSE SortFrom(InsertSorted(sorted, Head(rest)), Tail(rest))

\* the insertion of x before the elements that score the same (ties reversed)
RECURSIVE InsertUnstable(_, _)
InsertUnstable(s, x) ==
    IF s = <<>> THEN <<x>>
    ELSE IF ~ScoreLess(x, Head(s)) THEN <<x>> \o s
    ELSE <<Head(s)>> \o InsertUnstable(Tail(s), x)

RECURSIVE SortFromUnstable(_, _)
SortFromUnstable(sorted, rest) ==
    IF rest = <<>> THEN sorted
    ELSE SortFromUnstable(InsertUnstable(sorted, Head(rest)), Tail(rest))

SortPoolUnstable(p) == SortFromUnstable(<<>>, p)

\* pool.sort((p,q) => q.score - p.score): descending by score, stable
SortPool(p) == SortFrom(<<>>, p)

\* perDay in tenths
PerDayBusyDefault(pace) == IF pace = "relaxed" THEN 12 ELSE IF pace = "moderate" THEN 20 ELSE 30

PerDay(pace) == IF pace = "relaxed" THEN 12 ELSE IF pace = "busy" THEN 30 ELSE 20

\* Math.max(1, Math.round(perDay * days))
TargetCount(pace, d) == Max(1, MathRound(PerDay(pace) * d, 10))

\* the region-diversity loop over pool from position i on; r holds the
\* outcomes of the Math.random() > 0.6 tests and used counts those consumed.
\* The test is made only when the region is already in regions.
RECURSIVE DiverseLoop(_, _, _, _, _, _, _)
DiverseLoop(p, i, target, r, ch, regions, used) ==
    IF i > Len(p) \/ Len(ch) >= target THEN [chosen |-> ch, used |-> used]
    ELSE IF p[i].region \notin regions
    THEN DiverseLoop(p, i + 1, target, r, Append(ch, p[i]),
                     regions \cup {p[i].region}, used)
    ELSE IF r[used + 1]
    THEN DiverseLoop(p, i + 1, target, r, Append(ch, p[i]),
                     regions \cup {p[i].region}, used + 1)
    ELSE DiverseLoop(p, i + 1, target, r, ch, regions, used + 1)

\* the loop without the chosen.length >= targetCount test
RECURSIVE DiverseLoopNoBreak(_, _, _, _, _, _, _)
DiverseLoopNoBreak(p, i, target, r, ch, regions, used) ==
    IF i > Len(p) THEN [chosen |-> ch, used |-> used]
    ELSE IF p[i].region \notin regions
    THEN DiverseLoopNoBreak(p, i + 1, target, r, Append(ch, p[i]),
                            regions \cup {p[i].region}, used)
    ELSE IF r[used + 1]
    THEN DiverseLoopNoBreak(p, i + 1, target, r, Append(ch, p[i]),
                            regions \cup {p[i].region}, used + 1)
    ELSE DiverseLoopNoBreak(p, i + 1, target, r, ch, regions, used + 1)

DiversePassNoBreak(p, target, r) == DiverseLoopNoBreak(p, 1, target, r, <<>>, {}, 0).chosen

\* pick with region diversity
DiversePass(p, target, r) == DiverseLoop(p, 1, target, r, <<>>, {}, 0).chosen

\* the fallback loop over pool from position i on
RECURSIVE FallbackLoop(_, _, _, _)
FallbackLoop(p, i, target, ch) ==
    IF i > Len(p) \/ Len(ch) >= target THEN ch
    ELSE IF p[i] \notin Range(ch)
    THEN FallbackLoop(p, i + 1, target, Append(ch, p[i]))
    ELSE FallbackLoop(p, i + 1, target, ch)

\* the loop without the chosen.includes(item) test
RECURSIVE FallbackLoopNoCheck(_, _, _, _)
FallbackLoopNoCheck(p, i, target, ch) ==
    IF i > Len(p) \/ Len(ch) >= target THEN ch
    ELSE FallbackLoopNoCheck(p, i + 1, target, Append(ch, p[i]))

FallbackFillNoCheck(p, target, ch) == FallbackLoopNoCheck(p, 1, target, ch)

\* fallback fill
FallbackFill(p, target, ch) == FallbackLoop(p, 1, target, ch)

\* Math.max(1, Math.round(targetCount / days)), days > 0
DaySlots(target, d) == Max(1, MathRound(target, d))

\* chosen.slice(from, to), zero-based, clamped to the length
Slice(s, from, to) == SubSeq(s, from + 1, Min(to, Len(s)))

\* the day loop from day d on, with idx the position reached in chosen
RECURSIVE DayLoop(_, _, _, _, _)
DayLoop(ch, target, n, d, idx) ==
    IF d > n THEN <<>>
    ELSE LET daySlots == DaySlots(target, n)
         IN  <<[day |-> d, items |-> Slice(ch, idx, idx + daySlots)]>>
             \o DayLoop(ch, target, n, d + 1, idx + daySlots)

\* the day loop stopping once chosen is exhausted
RECURSIVE DayLoopNoEmpty(_, _, _, _, _)
DayLoopNoEmpty(ch, target, n, d, idx) ==
    IF d > n \/ idx >= Len(ch) THEN <<>>
    ELSE LET daySlots == DaySlots(target, n)
         IN  <<[day |-> d, items |-> Slice(ch, idx, idx + daySlots)]>>
             \o DayLoopNoEmpty(ch, target, n, d + 1, idx + daySlots)

BuildPlanNoEmpty(ch, target, n) == DayLoopNoEmpty(ch, target, n, 1, 0)

\* build day-wise plan
BuildPlan(ch, target, n) == DayLoop(ch, target, n, 1, 0)

\* an upper bound on the Math.random() calls of one run: only an item whose
\* region an earlier item of the pool has can reach the call
MaxRandomCalls(cat) == Len(cat) - Cardinality({cat[i].region : i \in 1..Len(cat)})

\* simulateItinerary({days, tags, pace}) on the catalog cat with the random
\* outcomes r: every local the function computes
simulateItinerary(cat, d, tags, pace, r) ==
    LET p == SortPool(MapScores(cat, tags, pace))
        target == TargetCount(pace, d)
        dv == DiversePass(p, target, r)
        ch == FallbackFill(p, target, dv)
    IN  [pool |-> p, targetCount |-> target, diverse |-> dv, chosen |-> ch,
         plan |-> BuildPlan(ch, target, d)]

----------------------------------------------------------------------------
(* The values the days field can hold *)

RECURSIVE ToDecimal(_)
ToDecimal(n) ==
    IF n < 10 THEN <<Digits[n + 1]>>
    ELSE ToDecimal(n \div 10) \o <<Digits[(n % 10) + 1]>>

SignedDecimal(n) == IF n < 0 THEN <<"-">> \o ToDecimal(0 - n) ELSE ToDecimal(n)

OtherDayInputs ==
    { <<>>, <<"a", "b", "c">>, <<"2", ".", "7">>, <<" ", "4">>, <<"3", "a">>,
      <<"+", "2">>, <<"0", "8">>, <<"-">>, <<"-", "0">>, <<"1", "e", "3">> }

DayInputs == {SignedDecimal(n) : n \in (0 - MaxDays)..MaxDays} \cup OtherDayInputs

----------------------------------------------------------------------------
(* The generate click handler *)

\* the planner part of the page before any click: one value of the days
\* field, of the pace select and of the selected tag chips
PlannerInit ==
    /\ daysValue \in DayInputs
    /\ paceValue \in PaceValues
    /\ selectedTags \in SUBSET Tags
    /\ pc = "idle"
    /\ days = 0
    /\ rnd = <<>>
    /\ pool = <<>>
    /\ targetCount = 0
    /\ diverse = <<>>
    /\ chosen = <<>>
    /\ plan = <<>>

\* the planner part of the page left untouched
PlannerIdle ==
    /\ catalog = ATTRACTIONS
    /\ daysValue = <<"1">>
    /\ paceValue = "moderate"
    /\ selectedTags = {}
    /\ pc = "idle"
    /\ days = 0
    /\ rnd = <<>>
    /\ pool = <<>>
    /\ targetCount = 0
    /\ diverse = <<>>
    /\ chosen = <<>>
    /\ plan = <<>>

\* generateBtn click: parse the days field, run simulateItinerary with the
\* selected tags and pace, display the plan
Generate ==
    /\ pc = "idle"
    /\ \E r \in [1..MaxRandomCalls(catalog) -> BOOLEAN] :
          LET d == ParseDays(daysValue)
              res == simulateItinerary(catalog, d, selectedTags, paceValue, r)
          IN  /\ days' = d
              /\ rnd' = r
              /\ pool' = res.pool
              /\ targetCount' = res.targetCount
              /\ diverse' = res.diverse
              /\ chosen' = res.chosen
              /\ plan' = res.plan
    /\ pc' = "done"
    /\ UNCHANGED <<catalog, daysValue, paceValue, selectedTags>>
    /\ UNCHANGED assistantVars
    /\ UNCHANGED voiceVars

AssistantIdle ==
    /\ locale = "en-US"
    /\ transcript = <<>>
    /\ assistantResp = <<>>

VoiceIdle ==
    /\ recognizer = 0
    /\ recognizing = FALSE
    /\ startDisabled = FALSE
    /\ stopDisabled = TRUE
    /\ session = [s \in 1..MaxSessions |-> "none"]

\* the catalogs simulateItinerary is run on when the catalog is a parameter:
\* the first k attractions, k = 0 .. 7
Catalogs == {SubSeq(ATTRACTIONS, 1, k) : k \in 0..Len(ATTRACTIONS)}

Init == catalog = ATTRACTIONS /\ PlannerInit /\ AssistantIdle /\ VoiceIdle
Next == Generate
Spec == Init /\ [][Next]_vars

InitAnyCatalog == catalog \in Catalogs /\ PlannerInit /\ AssistantIdle /\ VoiceIdle
SpecAnyCatalog == InitAnyCatalog /\ [][Next]_vars

----------------------------------------------------------------------------
(* Properties of the itinerary generator *)

RECURSIVE SumItems(_)
SumItems(pl) == IF pl = <<>> THEN 0 ELSE Len(Head(pl).items) + SumItems(Tail(pl))

RECURSIVE AllItems(_)
AllItems(pl) == IF pl = <<>> THEN <<>> ELSE Head(pl).items \o AllItems(Tail(pl))

DistinctIds(s) == \A i, j \in 1..Len(s) : s[i].id = s[j].id => i = j

\* perDay of the claims, in tenths: 1.2 relaxed, 3 busy, 2 otherwise
SpecPerDay(pace) == CASE pace = "relaxed" -> 12 [] pace = "busy" -> 30 [] OTHER -> 20

\* t = max(1, round(n/d)) for d > 0, with round to nearest, halves up:
\* either n/d < 3/2 and t = 1, or t - 1/2 <= n/d < t + 1/2
IsMaxOneRound(t, n, d) ==
    IF 2 * n < 3 * d THEN t = 1
    ELSE (2 * t - 1) * d <= 2 * n /\ 2 * n < (2 * t + 1) * d

\* C1: for days >= 1 the items over all days of the plan number
\* min(targetCount, catalog size), and every attraction of chosen is in some
\* day of the plan
C1_PlanHoldsAllChosen ==
    (pc = "done" /\ days >= 1) =>
        /\ SumItems(plan) = Min(targetCount, Len(catalog))
        /\ \A i \in 1..Len(chosen) :
              \E d \in 1..Len(plan) : chosen[i] \in Range(plan[d].items)

\* C2: no attraction id occurs twice in chosen, nor in the plan, within a day
\* or across days
C2_NoDuplicates ==
    pc = "done" => DistinctIds(chosen) /\ DistinctIds(AllItems(plan))

\* the fallback pass ran over attractions the diversity pass had chosen and
\* added others
C2_Witness ==
    /\ pc = "done"
    /\ Len(diverse) >= 2
    /\ Len(chosen) > Len(diverse)
    /\ days >= 2

\* C3: the handler passes days >= 1, a field value that is not a number or
\* is <= 0 counts as 1, and the plan has at least one day
C3_DaysAtLeastOne ==
    pc = "done" =>
        /\ days >= 1
        /\ (parseInt(daysValue).nan \/ parseInt(daysValue).value <= 0) => days = 1
        /\ Len(plan) >= 1

\* C4: for days >= 1 the plan has the days 1..days in order; day i holds the
\* items of chosen at positions (i-1)*daySlots+1 .. i*daySlots that exist,
\* with daySlots = max(1, round(targetCount/days)); a day past the end of
\* chosen is present and empty
C4_PlanShape ==
    (pc = "done" /\ days >= 1) =>
        /\ Len(plan) = days
        /\ \A i \in 1..Len(plan) : plan[i].day = i
        /\ \E slots \in 1..Max(1, targetCount) :
              /\ IsMaxOneRound(slots, targetCount, days)
              /\ \A i \in 1..Len(plan) :
                    /\ Len(plan[i].items) <= slots
                    /\ plan[i].items =
                         SubSeq(chosen, (i - 1) * slots + 1, Min(i * slots, Len(chosen)))
                    /\ (i - 1) * slots >= Len(chosen) => plan[i].items = <<>>

\* a plan of several days on the empty catalog
C4_Witness ==
    /\ pc = "done"
    /\ catalog = <<>>
    /\ days >= 2
    /\ Len(plan) = days
    /\ \A i \in 1..Len(plan) : plan[i].items = <<>>

\* C5: chosen has min(targetCount, catalog size) items, the diversity pass
\* chooses at most targetCount, and targetCount = max(1, round(perDay * days))
C5_ChosenCount ==
    pc = "done" =>
        /\ IsMaxOneRound(targetCount, SpecPerDay(paceValue) * days, 10)
        /\ Len(diverse) <= targetCount
        /\ Len(chosen) = Min(targetCount, Len(catalog))

\* the diversity pass fell short and the fallback pass filled the shortfall
C5_Witness ==
    /\ pc = "done"
    /\ Len(diverse) < targetCount
    /\ targetCount <= Len(catalog)
    /\ Len(chosen) = targetCount

\* C6: the score is 1 with no tag selected, 2k for k >= 1 selected tags
\* carried, 0 when none of a non-empty selection is carried; busy adds
\* 1 / (duration + 0.1) and nothing else
C6_Score ==
    pc = "done" =>
        \A i \in 1..Len(pool) :
            LET a == pool[i]
                k == Cardinality(selectedTags \cap Range(a.tags))
                v == IF selectedTags = {} THEN 1 ELSE IF k >= 1 THEN 2 * k ELSE 0
            IN  IF paceValue = "busy"
                THEN a.score.n * (a.duration + 10)
                        = (v * (a.duration + 10) + 100) * a.score.d
                ELSE a.score.n = v * a.score.d

\* a selection of which one attraction carries three tags and another none
C6_Witness ==
    /\ pc = "done"
    /\ paceValue # "busy"
    /\ \E i, j \in 1..Len(pool) :
          /\ Cardinality(selectedTags \cap Range(pool[i].tags)) = 3
          /\ Cardinality(selectedTags \cap Range(pool[j].tags)) = 0

\* C8: with a pace outside relaxed, moderate, busy the scores, targetCount
\* and the plan are those of pace = moderate with the same days, tags and
\* random outcomes
C8_UnknownPaceIsModerate ==
    (pc = "done" /\ days >= 1 /\ paceValue \notin Paces) =>
        LET m == simulateItinerary(catalog, days, selectedTags, "moderate", rnd)
        IN  /\ pool = m.pool
            /\ targetCount = m.targetCount
            /\ plan = m.plan

\* a run with an unknown pace in which a random outcome rejected an item
C8_Witness ==
    /\ pc = "done"
    /\ paceValue \notin Paces
    /\ days >= 2
    /\ \E i \in 1..Len(diverse) : diverse[i] # pool[i]

\* C9: for days >= 1 on a non-empty catalog the first item of day 1 has the
\* greatest score of the catalog and is the earliest of the catalog with it
C9_TopRankedFirst ==
    (pc = "done" /\ days >= 1 /\ catalog # <<>>) =>
        /\ plan[1].items # <<>>
        /\ LET m == MapScores(catalog, selectedTags, paceValue)
            IN  \E i \in 1..Len(m) :
                  /\ m[i].id = plan[1].items[1].id
                  /\ \A j \in 1..Len(m) : ~ScoreLess(m[i], m[j])
                  /\ \A j \in 1..(i - 1) : ScoreLess(m[j], m[i])

\* several attractions share the greatest score and the first of day 1 is
\* not the first of the catalog
C9_Witness ==
    /\ pc = "done"
    /\ days >= 1
    /\ plan[1].items # <<>>
    /\ plan[1].items[1].id # 1
    /\ Len(pool) >= 2
    /\ ~ScoreLess(pool[2], pool[1])

----------------------------------------------------------------------------
(* assistantRespond *)

UpperChars == <<
    "A", "B", "C", "D", "E", "F", "G", "H", "I", "J", "K", "L", "M", "N",
    "O", "P", "Q", "R", "S", "T", "U", "V", "W", "X", "Y", "Z" >>
LowerChars == <<
    "a", "b", "c", "d", "e", "f", "g", "h", "i", "j", "k", "l", "m", "n",
    "o", "p", "q", "r", "s", "t", "u", "v", "w", "x", "y", "z" >>

\* one character of toLowerCase
LowerChar(c) ==
    IF \E i \in 1..26 : UpperChars[i] = c
    THEN LowerChars[CHOOSE i \in 1..26 : UpperChars[i] = c]
    ELSE c

\* text.toLowerCase()
toLowerCase(text) == [i \in 1..Len(text) |-> LowerChar(text[i])]

\* does k occur in s at position i (1-based), compared character by character
RECURSIVE MatchAt(_, _, _, _)
MatchAt(s, k, i, j) ==
    IF j > Len(k) THEN TRUE
    ELSE IF i + j - 1 > Len(s) THEN FALSE
    ELSE IF s[i + j - 1] # k[j] THEN FALSE
    ELSE MatchAt(s, k, i, j + 1)

RECURSIVE IncludesFrom(_, _, _)
IncludesFrom(s, k, i) ==
    IF i + Len(k) - 1 > Len(s) THEN FALSE
    ELSE IF MatchAt(s, k, i, 1) THEN TRUE
    ELSE IncludesFrom(s, k, i + 1)

\* s.includes(k)
includes(s, k) == IncludesFrom(s, k, 1)

KwItinerary == <<"i", "t", "i", "n", "e", "r", "a", "r", "y">>
KwAttraction == <<"a", "t", "t", "r", "a", "c", "t", "i", "o", "n">>
KwAttractions == <<"a", "t", "t", "r", "a", "c", "t", "i", "o", "n", "s">>
KwHello == <<"h", "e", "l", "l", "o">>
KwHi == <<"h", "i">>
KwBye == <<"b", "y", "e">>
KwThanks == <<"t", "h", "a", "n", "k", "s">>
KwSuggest == <<"s", "u", "g", "g", "e", "s", "t">>

ReplyFallback == "I'm sorry, I didn't get that. You can ask for 'itinerary', 'attractions', or 'help'."
ReplyItinerary == "To generate an itinerary, choose days, interests and click 'Generate itinerary'. I can also suggest a 3-day nature-focused plan."
ReplyAttractions == "I can show popular attractions like Betla National Park, Hundru Falls, Deoghar Sun Temple. Tell me your interest to refine."
ReplyHello == "Hello! How can I help you plan your trip to Jharkhand?"
ReplyBye == "You're welcome! Have a great trip."
ReplySuggest == "Suggesting a nature-focused 2-day plan: Day 1 - Betla National Park; Day 2 - Hundru Falls & Netarhat sunrise spot."

\* the rules with the farewell rule tested before the greeting rule
assistantReplyByeFirst(text) ==
    LET normalized == toLowerCase(text)
    IN  IF includes(normalized, KwItinerary) THEN ReplyItinerary
        ELSE IF includes(normalized, KwAttraction) \/ includes(normalized, KwAttractions)
        THEN ReplyAttractions
        ELSE IF includes(normalized, KwBye) \/ includes(normalized, KwThanks)
        THEN ReplyBye
        ELSE IF includes(normalized, KwHello) \/ includes(normalized, KwHi)
        THEN ReplyHello
        ELSE IF includes(normalized, KwSuggest) THEN ReplySuggest
        ELSE ReplyFallback

\* the reply assistantRespond chooses for text
assistantReply(text) ==
    LET normalized == toLowerCase(text)
    IN  IF includes(normalized, KwItinerary) THEN ReplyItinerary
        ELSE IF includes(normalized, KwAttraction) \/ includes(normalized, KwAttractions)
        THEN ReplyAttractions
        ELSE IF includes(normalized, KwHello) \/ includes(normalized, KwHi)
        THEN ReplyHello
        ELSE IF includes(normalized, KwBye) \/ includes(normalized, KwThanks)
        THEN ReplyBye
        ELSE IF includes(normalized, KwSuggest) THEN ReplySuggest
        ELSE ReplyFallback

\* the words utterances are made of
Words ==
    { <<"i", "t", "i", "n", "e", "r", "a", "r", "y">>,
      <<"A", "t", "t", "r", "a", "c", "t", "i", "o", "n", "s">>,
      <<"H", "e", "l", "l", "o">>,
      <<"h", "i">>,
      <<"b", "y", "e">>,
      <<"T", "h", "a", "n", "k", "s">>,
      <<"s", "u", "g", "g", "e", "s", "t">>,
      <<"t", "h", "i", "s">>,
      <<"p", "l", "a", "n">>,
      <<"B", "Y", "E">> }

RECURSIVE JoinWords(_)
JoinWords(ws) ==
    IF ws = <<>> THEN <<>>
    ELSE IF Len(ws) = 1 THEN ws[1]
    ELSE ws[1] \o <<" ">> \o JoinWords(Tail(ws))

Utterances == {JoinWords(ws) : ws \in UNION {[1..n -> Words] : n \in 0..MaxWords}}

Locales == {"en-US", "hi-IN"}

AssistantInit ==
    /\ locale \in Locales
    /\ transcript \in Utterances
    /\ assistantResp = <<>>

\* assistantRespond(text, locale) on the transcript: the reply is written to
\* the response area with the locale and spoken
Respond ==
    /\ assistantResp = <<>>
    /\ assistantResp' = <<locale, assistantReply(transcript)>>
    /\ UNCHANGED <<locale, transcript>>
    /\ UNCHANGED plannerVars
    /\ UNCHANGED voiceVars

InitAssistant == PlannerIdle /\ AssistantInit /\ VoiceIdle
NextAssistant == Respond
SpecAssistant == InitAssistant /\ [][NextAssistant]_vars

\* s has k as a substring
HasSub(s, k) == \E i \in 1..(Len(s) - Len(k) + 1) : SubSeq(s, i, i + Len(k) - 1) = k

\* C7: the reply is that of the first rule, in the order itinerary;
\* attraction(s); hello/hi; bye/thanks; suggest, with a keyword in the
\* lowercased utterance, and the fallback reply when there is none
C7_FirstRuleWins ==
    assistantResp # <<>> =>
        LET n == toLowerCase(transcript)
            reply == assistantResp[2]
            r1 == HasSub(n, KwItinerary)
            r2 == HasSub(n, KwAttraction) \/ HasSub(n, KwAttractions)
            r3 == HasSub(n, KwHello) \/ HasSub(n, KwHi)
            r4 == HasSub(n, KwBye) \/ HasSub(n, KwThanks)
            r5 == HasSub(n, KwSuggest)
        IN  /\ r1 => reply = ReplyItinerary
            /\ (~r1 /\ r2) => reply = ReplyAttractions
            /\ (~r1 /\ ~r2 /\ r3) => reply = ReplyHello
            /\ (~r1 /\ ~r2 /\ ~r3 /\ r4) => reply = ReplyBye
            /\ (~r1 /\ ~r2 /\ ~r3 /\ ~r4 /\ r5) => reply = ReplySuggest
            /\ (~r1 /\ ~r2 /\ ~r3 /\ ~r4 /\ ~r5) => reply = ReplyFallback
            /\ (HasSub(n, KwHello) /\ HasSub(n, KwBye) /\ ~r1 /\ ~HasSub(n, KwAttraction))
                  => reply = ReplyHello

\* an utterance with Hello and bye, answered with the greeting
C7_Witness ==
    /\ assistantResp # <<>>
    /\ HasSub(transcript, <<"H", "e", "l", "l", "o">>)
    /\ HasSub(transcript, KwBye)
    /\ ~HasSub(toLowerCase(transcript), KwItinerary)
    /\ assistantResp[2] = ReplyHello

----------------------------------------------------------------------------
(* Speech recognition: start and stop buttons, recognizer callbacks *)
(* A SpeechRecognition object is "none" until created, "starting" once      *)
(* start() is called, "listening" after its start event, "stopping" once it *)
(* was asked to stop or has delivered its result, "errored" after its error *)
(* event and "ended" after its end event.  The browser delivers the events  *)
(* of one object in that order and those of different objects in any order. *)

\* the texts a recognition result carries
SpokenTexts == {JoinWords(<<w>>) : w \in {KwHello, KwItinerary}}

\* recognizer.stop() on object s
StopSession(ss, s) ==
    IF ss[s] \in {"starting", "listening"} THEN [ss EXCEPT ![s] = "stopping"] ELSE ss

\* the session states after stopRecognition(): the current recognizer is
\* stopped when there is one and recognizing is set
StopRecognitionSessions(ss) ==
    IF recognizer # 0 /\ recognizing THEN StopSession(ss, recognizer) ELSE ss

\* startBtn click (in a browser with speech recognition): a new recognizer
\* replaces the current one, gets its callbacks and is started
StartClick ==
    /\ ~startDisabled
    /\ \E s \in 1..MaxSessions :
          /\ session[s] = "none"
          /\ \A t \in 1..(s - 1) : session[t] # "none"
          /\ recognizer' = s
          /\ session' = [session EXCEPT ![s] = "starting"]
    /\ UNCHANGED <<recognizing, startDisabled, stopDisabled>>
    /\ UNCHANGED plannerVars
    /\ UNCHANGED assistantVars

\* recognizer.onstart of object s
OnStart(s) ==
    /\ session[s] = "starting"
    /\ session' = [session EXCEPT ![s] = "listening"]
    /\ recognizing' = TRUE
    /\ startDisabled' = TRUE
    /\ stopDisabled' = FALSE
    /\ UNCHANGED recognizer
    /\ UNCHANGED plannerVars
    /\ UNCHANGED assistantVars

\* recognizer.onresult of object s: the text goes to assistantRespond; with
\* continuous unset the object then only has its end event left
OnResult(s) ==
    /\ session[s] \in {"listening", "stopping"}
    /\ \E text \in SpokenTexts :
          /\ transcript' = text
          /\ assistantResp' = <<locale, assistantReply(text)>>
    /\ session' = [session EXCEPT ![s] = "stopping"]
    /\ UNCHANGED <<locale, recognizer, recognizing, startDisabled, stopDisabled>>
    /\ UNCHANGED plannerVars

\* recognizer.onerror of object s: stopRecognition()
OnError(s) ==
    /\ session[s] \in {"starting", "listening", "stopping"}
    /\ session' = StopRecognitionSessions([session EXCEPT ![s] = "errored"])
    /\ recognizing' = FALSE
    /\ startDisabled' = FALSE
    /\ stopDisabled' = TRUE
    /\ UNCHANGED recognizer
    /\ UNCHANGED plannerVars
    /\ UNCHANGED assistantVars

\* recognizer.onend of object s
OnEnd(s) ==
    /\ session[s] \in {"listening", "stopping", "errored"}
    /\ session' = [session EXCEPT ![s] = "ended"]
    /\ recognizing' = FALSE
    /\ startDisabled' = FALSE
    /\ stopDisabled' = TRUE
    /\ UNCHANGED recognizer
    /\ UNCHANGED plannerVars
    /\ UNCHANGED assistantVars

\* stopBtn click: stopRecognition()
StopClick ==
    /\ ~stopDisabled
    /\ session' = StopRecognitionSessions(session)
    /\ recognizing' = FALSE
    /\ startDisabled' = FALSE
    /\ stopDisabled' = TRUE
    /\ UNCHANGED recognizer
    /\ UNCHANGED plannerVars
    /\ UNCHANGED assistantVars

InitVoice == PlannerIdle /\ AssistantIdle /\ VoiceIdle
NextVoice ==
    \/ StartClick
    \/ StopClick
    \/ \E s \in 1..MaxSessions : OnStart(s)
    \/ \E s \in 1..MaxSessions : OnResult(s)
    \/ \E s \in 1..MaxSessions : OnError(s)
    \/ \E s \in 1..MaxSessions : OnEnd(s)
SpecVoice == InitVoice /\ [][NextVoice]_vars

\* a session that has started and was neither asked to stop, nor failed,
\* nor ended
Listening(s) == session[s] = "listening"

\* C10: at most one session is active at a time, and while one is active
\* recognizing is true and the Stop button is enabled
C10_OneStoppableSession ==
    /\ Cardinality({s \in 1..MaxSessions : Listening(s)}) <= 1
    /\ \A s \in 1..MaxSessions : Listening(s) => (recognizing /\ ~stopDisabled)

====
